---------------------------- MODULE Spec2Model ----------------------------
(***************************************************************************)
(* A model of the path-distortion utilities of diagram-lit-element:        *)
(*   - makeDraftyPath / distortPath      (src/src/utils/distortSVG.ts)     *)
(*   - lineToBezier                      (src/src/utils/lineToBesier.ts)   *)
(*   - cubicBezierPoint, splitCubicBezier, arcToCubicBeziers               *)
(*                                       (src/src/my-element.ts)           *)
(*                                                                         *)
(* Numbers.  JavaScript numbers are modelled as exact rationals <<n, d>>   *)
(* in lowest terms with d > 0, so that "one third of the way" is a value   *)
(* of the model and equality of two numbers is equality of two tuples.     *)
(* Floating-point rounding is not modelled.                                *)
(*                                                                         *)
(* Text.  A string is a sequence of lexemes <<kind, n, d>>: a command      *)
(* letter (kind is the letter), a number literal (kind "num", value n/d),  *)
(* a blank " ", a comma "," or a non-numeric run "#".                      *)
(***************************************************************************)
EXTENDS Integers, Sequences, FiniteSets, TLC

(***************************************************************************)
(* Bounds of the model.                                                    *)
(***************************************************************************)
MaxCmds == 2        \* commands per generated input path
MaxRepeats == 2     \* largest value of options.repeats
MaxJitter == 1      \* largest value of options.jitter (whole units)
MaxSegments == 5    \* largest segment count given to splitCubicBezier
MaxCoord == 1       \* input points have x in 0..MaxCoord
MaxRadius == 2      \* arc radii are 1..MaxRadius
MaxReach == 4       \* an arc's end is at most MaxReach from its start, per axis

(***************************************************************************)
(* Rational arithmetic: the +, -, *, / of the source on numbers.           *)
(***************************************************************************)
Abs(n) == IF n < 0 THEN -n ELSE n

RECURSIVE GCD(_, _)
GCD(a, b) == IF b = 0 THEN a ELSE GCD(b, a % b)

Norm(n, d) ==
  IF d < 0 THEN LET g == GCD(Abs(n), -d) IN <<(-n) \div g, (-d) \div g>>
  ELSE LET g == GCD(Abs(n), d) IN <<n \div g, d \div g>>

R(n) == <<n, 1>>

RAdd(a, b) ==
  IF a[2] = b[2] THEN Norm(a[1] + b[1], a[2])
  ELSE LET g == GCD(a[2], b[2])
       IN  Norm(a[1] * (b[2] \div g) + b[1] * (a[2] \div g), (a[2] \div g) * b[2])

RNeg(a) == <<-a[1], a[2]>>

RSub(a, b) == RAdd(a, RNeg(b))

RMul(a, b) ==
  IF a[1] = 0 \/ b[1] = 0 THEN R(0)
  ELSE LET g1 == GCD(Abs(a[1]), b[2])
           g2 == GCD(Abs(b[1]), a[2])
       IN  <<(a[1] \div g1) * (b[1] \div g2), (a[2] \div g2) * (b[2] \div g1)>>

RDiv(a, b) == RMul(a, Norm(b[2], b[1]))

RLess(a, b) == RSub(a, b)[1] < 0

RMax(a, b) == IF RLess(a, b) THEN b ELSE a

RAbs(a) == <<Abs(a[1]), a[2]>>

Pt(x, y) == [x |-> x, y |-> y]

Origin == Pt(R(0), R(0))


(***************************************************************************)
(* lineToBezier: the cubic [p0, cp1, cp2, p1] whose control points lie on  *)
(* the segment.                                                            *)
(***************************************************************************)
\* A faulty variant: both control points at the midpoint.
lineToBezierMidpoint(p0, p1) ==
  LET mid == Pt(RAdd(p0.x, RDiv(RSub(p1.x, p0.x), R(2))),
                RAdd(p0.y, RDiv(RSub(p1.y, p0.y), R(2))))
  IN  <<p0, mid, mid, p1>>

lineToBezier(p0, p1) ==
  LET cp1 == Pt(RAdd(p0.x, RDiv(RSub(p1.x, p0.x), R(3))),
                RAdd(p0.y, RDiv(RSub(p1.y, p0.y), R(3))))
      cp2 == Pt(RAdd(p0.x, RDiv(RMul(R(2), RSub(p1.x, p0.x)), R(3))),
                RAdd(p0.y, RDiv(RMul(R(2), RSub(p1.y, p0.y)), R(3))))
  IN  <<p0, cp1, cp2, p1>>

(***************************************************************************)
(* cubicBezierPoint: three levels of linear interpolation.                 *)
(***************************************************************************)
lerp(a, b, t) == RAdd(a, RMul(RSub(b, a), t))

cubicBezierPoint(p0, p1, p2, p3, t) ==
  LET x01 == lerp(p0.x, p1.x, t)
      y01 == lerp(p0.y, p1.y, t)
      x12 == lerp(p1.x, p2.x, t)
      y12 == lerp(p1.y, p2.y, t)
      x23 == lerp(p2.x, p3.x, t)
      y23 == lerp(p2.y, p3.y, t)
      x012 == lerp(x01, x12, t)
      y012 == lerp(y01, y12, t)
      x123 == lerp(x12, x23, t)
      y123 == lerp(y12, y23, t)
  IN  Pt(lerp(x012, x123, t), lerp(y012, y123, t))

(***************************************************************************)
(* splitCubicBezier: one pass of the for loop (i = 1 .. segments) builds   *)
(* the sub-curve [pStart, pMid1, pMid2, pEnd] of [t0, t1].                 *)
(***************************************************************************)
\* A faulty variant: the loop variable taken as zero-based, so every
\* sub-curve is the one after the intended one.
splitSegmentShifted(p0, p1, p2, p3, segments, i) ==
  <<cubicBezierPoint(p0, p1, p2, p3, Norm(i, segments)),
    cubicBezierPoint(p0, p1, p2, p3, Norm(3 * i + 1, 3 * segments)),
    cubicBezierPoint(p0, p1, p2, p3, Norm(3 * i + 2, 3 * segments)),
    cubicBezierPoint(p0, p1, p2, p3, Norm(i + 1, segments))>>

splitSegment(p0, p1, p2, p3, segments, i) ==
  LET t0 == Norm(i - 1, segments)
      t1 == Norm(i, segments)
      pStart == cubicBezierPoint(p0, p1, p2, p3, t0)
      pMid1 == cubicBezierPoint(p0, p1, p2, p3,
                                RAdd(t0, RDiv(RSub(t1, t0), R(3))))
      pMid2 == cubicBezierPoint(p0, p1, p2, p3,
                                RAdd(t0, RDiv(RMul(R(2), RSub(t1, t0)), R(3))))
      pEnd == cubicBezierPoint(p0, p1, p2, p3, t1)
  IN  <<pStart, pMid1, pMid2, pEnd>>

(***************************************************************************)
(* arcToCubicBeziers.                                                      *)
(*                                                                         *)
(* Angles are kept in whole degrees (Math.PI is 180, maxSegmentAngle is    *)
(* 15).  Math.sin and Math.cos are a table over the multiples of 15        *)
(* degrees, exact at the multiples of 90 and rounded to 1/1000 elsewhere;  *)
(* Math.atan2 is defined on the four axis directions and Math.sqrt on      *)
(* squares of rationals.  ArcExact is the set of arcs on which these       *)
(* partial operations are defined; the model converts only such arcs.      *)
(***************************************************************************)
SinTable == <<0, 259, 500, 707, 866, 966, 1000>>

SinDeg(a) ==
  LET m == a % 360
  IN  IF m <= 90 THEN Norm(SinTable[(m \div 15) + 1], 1000)
      ELSE IF m <= 180 THEN Norm(SinTable[((180 - m) \div 15) + 1], 1000)
      ELSE IF m <= 270 THEN Norm(-SinTable[((m - 180) \div 15) + 1], 1000)
      ELSE Norm(-SinTable[((360 - m) \div 15) + 1], 1000)

CosDeg(a) == SinDeg(a + 90)

\* Math.tan(a / 4) for a sub-sweep a of +-15 degrees, rounded to 1/2000.
TanQuarter(a) ==
  IF a = 15 THEN <<131, 2000>> ELSE IF a = -15 THEN <<-131, 2000>> ELSE R(0)

IsSquare(n) == n >= 0 /\ \E k \in 0..n : k * k = n

ISqrt(n) == CHOOSE k \in 0..n : k * k = n

RIsSquare(a) == IsSquare(a[1]) /\ IsSquare(a[2])

RSqrt(a) == <<ISqrt(a[1]), ISqrt(a[2])>>

OnAxis(y, x) == (x[1] = 0) # (y[1] = 0)

ATan2Deg(y, x) ==
  IF y[1] = 0 THEN (IF x[1] < 0 THEN 180 ELSE 0)
  ELSE IF y[1] > 0 THEN 90 ELSE -90

\* The stages below follow the function top to bottom.  Each takes the
\* record s of everything computed so far and adds its own constants; the
\* field exact tells whether the partial operations used so far, and the ones
\* the next stage needs, are defined.

\* Lines 162-171: the destructured arc, sinPhi, cosPhi, x1p, y1p.
arcFrame(arc) ==
  LET sinPhi == SinDeg(arc.xAxisRotation[1])
      cosPhi == CosDeg(arc.xAxisRotation[1])
      dx == RDiv(RSub(arc.px, arc.cx), R(2))
      dy == RDiv(RSub(arc.py, arc.cy), R(2))
  IN  arc @@
      [sinPhi |-> sinPhi, cosPhi |-> cosPhi,
       x1p |-> RAdd(RMul(cosPhi, dx), RMul(sinPhi, dy)),
       y1p |-> RAdd(RMul(RNeg(sinPhi), dx), RMul(cosPhi, dy)),
       exact |-> /\ arc.xAxisRotation[2] = 1
                 /\ arc.xAxisRotation[1] % 90 = 0
                 /\ arc.rx[1] # 0 /\ arc.ry[1] # 0]

\* Lines 174-180: x1p2, y1p2 and lambda (rx2 and ry2 are still rx * rx and
\* ry * ry here).
arcLambda(s) ==
  IF ~s.exact THEN s
  ELSE LET x1p2 == RMul(s.x1p, s.x1p)
           y1p2 == RMul(s.y1p, s.y1p)
           lambda == RAdd(RDiv(x1p2, RMul(s.rx, s.rx)),
                          RDiv(y1p2, RMul(s.ry, s.ry)))
       IN  [s EXCEPT !.exact = /\ s.x1p[1] # 0 \/ s.y1p[1] # 0
                               /\ RLess(R(1), lambda) => RIsSquare(lambda)]
           @@ [x1p2 |-> x1p2, y1p2 |-> y1p2, lambda |-> lambda]

\* Lines 174-175 and 181-185: rx2 and ry2, replaced when lambda > 1; rx and
\* ry themselves stay as given.  Lines 191-194: the argument of Math.sqrt.
arcRadii(s) ==
  IF ~s.exact THEN s
  ELSE LET factor == RSqrt(s.lambda)
           rx2 == IF RLess(R(1), s.lambda)
                  THEN RMul(RMul(s.rx, factor), RMul(s.rx, factor))
                  ELSE RMul(s.rx, s.rx)
           ry2 == IF RLess(R(1), s.lambda)
                  THEN RMul(RMul(s.ry, factor), RMul(s.ry, factor))
                  ELSE RMul(s.ry, s.ry)
           radicand ==
             RMax(R(0),
                  RDiv(RSub(RSub(RMul(rx2, ry2), RMul(rx2, s.y1p2)),
                            RMul(ry2, s.x1p2)),
                       RAdd(RMul(rx2, s.y1p2), RMul(ry2, s.x1p2))))
       IN  [s EXCEPT !.exact = RIsSquare(radicand)]
           @@ [rx2 |-> rx2, ry2 |-> ry2, radicand |-> radicand]

\* Lines 187-201: sign, coef, cxp, cyp, cxCenter, cyCenter.
arcCenter(s) ==
  IF ~s.exact THEN s
  ELSE LET sign == IF s.largeArcFlag # s.sweepFlag THEN 1 ELSE -1
           coef == RMul(R(sign), RSqrt(s.radicand))
           cxp == RDiv(RMul(coef, RMul(s.rx, s.y1p)), s.ry)
           cyp == RDiv(RMul(coef, RNeg(RMul(s.ry, s.x1p))), s.rx)
       IN  s @@
           [cxp |-> cxp, cyp |-> cyp,
            cxCenter |-> RAdd(RSub(RMul(s.cosPhi, cxp), RMul(s.sinPhi, cyp)),
                              RDiv(RAdd(s.px, s.cx), R(2))),
            cyCenter |-> RAdd(RAdd(RMul(s.sinPhi, cxp), RMul(s.cosPhi, cyp)),
                              RDiv(RAdd(s.py, s.cy), R(2)))]

\* Lines 207-208: the two corrections of deltaAngle.
sweepCorrected(sweepFlag, deltaAngle) ==
  IF ~sweepFlag /\ deltaAngle > 0 THEN deltaAngle - 360
  ELSE IF sweepFlag /\ deltaAngle < 0 THEN deltaAngle + 360
  ELSE deltaAngle

\* Lines 203-208: startAngle and deltaAngle.
arcAngles(s) ==
  IF ~s.exact THEN s
  ELSE LET sy == RDiv(RSub(s.y1p, s.cyp), s.ry)
           sx == RDiv(RSub(s.x1p, s.cxp), s.rx)
           ey == RDiv(RSub(RNeg(s.y1p), s.cyp), s.ry)
           ex == RDiv(RSub(RNeg(s.x1p), s.cxp), s.rx)
           startAngle == ATan2Deg(sy, sx)
       IN  [s EXCEPT !.exact = OnAxis(sy, sx) /\ OnAxis(ey, ex)]
           @@ [startAngle |-> startAngle,
               deltaAngle |-> sweepCorrected(s.sweepFlag,
                                             ATan2Deg(ey, ex) - startAngle)]

\* Lines 210-212: segments and delta (delta is not used when segments = 0).
arcSteps(s) ==
  IF ~s.exact THEN s
  ELSE LET segments == (Abs(s.deltaAngle) + 14) \div 15
       IN  s @@ [segments |-> segments,
                 delta |-> IF segments = 0 THEN 0
                           ELSE s.deltaAngle \div segments]

\* Lines 226-233: the point of the ellipse at angle theta (p0 and p3).
arcPoint(s, theta) ==
  LET cosTheta == CosDeg(theta)
      sinTheta == SinDeg(theta)
  IN  Pt(RSub(RAdd(s.cxCenter, RMul(RMul(s.rx, cosTheta), s.cosPhi)),
              RMul(RMul(s.ry, sinTheta), s.sinPhi)),
         RAdd(RAdd(s.cyCenter, RMul(RMul(s.rx, cosTheta), s.sinPhi)),
              RMul(RMul(s.ry, sinTheta), s.cosPhi)))

\* Lines 236-237 and 240-241: the parenthesised factors of t in p1 and p2.
arcTangent(s, theta) ==
  LET cosTheta == CosDeg(theta)
      sinTheta == SinDeg(theta)
  IN  Pt(RAdd(RMul(RMul(s.rx, sinTheta), s.cosPhi),
              RMul(RMul(s.ry, cosTheta), s.sinPhi)),
         RSub(RMul(RMul(s.rx, sinTheta), s.sinPhi),
              RMul(RMul(s.ry, cosTheta), s.cosPhi)))

\* Lines 235-244: p1 and p2 from p0, p3 and the factors, and the segment.
arcCubic(p0, p3, d1, d2, t) ==
  <<p0,
    Pt(RSub(p0.x, RMul(t, d1.x)), RSub(p0.y, RMul(t, d1.y))),
    Pt(RAdd(p3.x, RMul(t, d2.x)), RAdd(p3.y, RMul(t, d2.y))),
    p3>>

\* Lines 215-245: the i-th pass of the for loop (i = 0 .. segments - 1).
arcSegment(s, i) ==
  LET theta1 == s.startAngle + i * s.delta
      theta2 == theta1 + s.delta
      t == RMul(<<4, 3>>, TanQuarter(theta2 - theta1))
  IN  arcCubic(arcPoint(s, theta1), arcPoint(s, theta2),
               arcTangent(s, theta1), arcTangent(s, theta2), t)

\* Lines 162-212: everything before the loop.
arcSetup(arc) ==
  arcSteps(arcAngles(arcCenter(arcRadii(arcLambda(arcFrame(arc))))))

\* Lines 213-247: the loop and the return, for s = arcSetup(arc).
arcLoop(s) == [k \in 1..s.segments |-> arcSegment(s, k - 1)] \o <<>>

arcToCubicBeziers(arc) == arcLoop(arcSetup(arc))

\* The arcs on which the partial operations above are defined.
ArcExact(arc) == arcSetup(arc).exact

(***************************************************************************)
(* Text: lexemes, the command regular expression, parseParams, trim.       *)
(***************************************************************************)
Lt(c) == <<c, 0, 1>>

Num(v) == <<"num", v[1], v[2]>>       \* `${v}`: a number written to text

SP == <<" ", 0, 1>>

CM == <<",", 0, 1>>

JK == <<"#", 0, 1>>

UpperLetters == {"M", "L", "H", "V", "C", "S", "Q", "T", "A", "Z", "X"}

LowerLetters == {"m", "l", "h", "v", "c", "s", "q", "t", "a", "z", "x"}

IsLetter(tok) == tok[1] \in UpperLetters \cup LowerLetters

\* command.toUpperCase()
toUpperCase(c) ==
  CASE c = "m" -> "M" [] c = "l" -> "L" [] c = "h" -> "H" [] c = "v" -> "V"
    [] c = "c" -> "C" [] c = "s" -> "S" [] c = "q" -> "Q" [] c = "t" -> "T"
    [] c = "a" -> "A" [] c = "z" -> "Z" [] c = "x" -> "X" [] OTHER -> c

\* paramCounts[upper]; -1 stands for undefined.
paramCounts(upper) ==
  CASE upper = "M" -> 2 [] upper = "L" -> 2 [] upper = "H" -> 1
    [] upper = "V" -> 1 [] upper = "C" -> 6 [] upper = "S" -> 4
    [] upper = "Q" -> 4 [] upper = "T" -> 2 [] upper = "A" -> 7
    [] upper = "Z" -> 0 [] OTHER -> -1

\* commandRegex.exec(d) with lastIndex = from: the next letter and the
\* longest run of non-letters after it.  at = 0 when there is no match.
regexExec(d, from) ==
  LET letters == {k \in from..Len(d) : IsLetter(d[k])}
  IN  IF letters = {} THEN [at |-> 0, last |-> 0]
      ELSE LET at == CHOOSE k \in letters : \A j \in letters : k <= j
               stops == {k \in (at + 1)..Len(d) : IsLetter(d[k])}
               last == IF stops = {} THEN Len(d)
                       ELSE (CHOOSE k \in stops : \A j \in stops : k <= j) - 1
           IN  [at |-> at, last |-> last]

\* paramStr.trim().split(/[\s,]+/).map(parseFloat).filter(not NaN): a field is
\* a longest run without blank or comma, and parseFloat reads the number a
\* field begins with.
parseParams(paramStr) ==
  LET isSep(k) == paramStr[k] = SP \/ paramStr[k] = CM
      starts == {k \in 1..Len(paramStr) :
                   /\ paramStr[k][1] = "num"
                   /\ k = 1 \/ isSep(k - 1)}
      nth(j) == CHOOSE k \in starts : Cardinality({x \in starts : x < k}) = j - 1
  IN  [j \in 1..Cardinality(starts) |->
         <<paramStr[nth(j)][2], paramStr[nth(j)][3]>>]

\* String.prototype.trim
RECURSIVE trimEnd(_)
trimEnd(str) ==
  IF str # <<>> /\ str[Len(str)] = SP THEN trimEnd(SubSeq(str, 1, Len(str) - 1))
  ELSE str

RECURSIVE trimStart(_)
trimStart(str) ==
  IF str # <<>> /\ Head(str) = SP THEN trimStart(Tail(str)) ELSE str

trim(str) == trimStart(trimEnd(str))

(***************************************************************************)
(* distortPath.                                                            *)
(*                                                                         *)
(* The interpreter state is [currentPoint, subpathStart, rebuiltPath];     *)
(* the field exact records that every arc met so far lies in ArcExact.     *)
(* off is the value of (Math.random() - 0.5) * jitter * 2 for one call of  *)
(* distortCoord; one command draws an offset jx for the x coordinates it   *)
(* writes and an offset jy for the y coordinates.                          *)
(***************************************************************************)
\* The values of (Math.random() - 0.5) * jitter * 2 the model draws: the
\* least and the greatest whole number of the half-open range
\* [-jitter, jitter), two of the values the code can draw.
Offsets(jit) == IF jit = 0 THEN {0} ELSE {-jit, jit - 1}

distortCoord(val, off) == RAdd(val, R(off))

\* `C ${c1x} ${c1y} ${c2x} ${c2y} ${ex} ${ey} `
cubicText(c1x, c1y, c2x, c2y, ex, ey) ==
  <<Lt("C"), SP, Num(c1x), SP, Num(c1y), SP, Num(c2x), SP, Num(c2y), SP,
    Num(ex), SP, Num(ey), SP>>

\* beziers.forEach(...) of the arc branch: the text of all segments, each
\* `C ${c1x} ${c1y} ${c2x} ${c2y} ${ex} ${ey} ` (14 lexemes).
arcText(beziers, jx, jy) ==
  LET texts == [k \in 1..Len(beziers) |->
                  cubicText(distortCoord(beziers[k][2].x, jx),
                            distortCoord(beziers[k][2].y, jy),
                            distortCoord(beziers[k][3].x, jx),
                            distortCoord(beziers[k][3].y, jy),
                            distortCoord(beziers[k][4].x, jx),
                            distortCoord(beziers[k][4].y, jy))] \o <<>>
  IN  [n \in 1..(14 * Len(beziers)) |->
         texts[((n - 1) \div 14) + 1][((n - 1) % 14) + 1]]

\* Lines 179-190: beziers.forEach writes the segments and moves the current
\* point to the end of each, so to the end of the last.
arcEmit(st, beziers, jx, jy) ==
  [st EXCEPT
     !.rebuiltPath = @ \o arcText(beziers, jx, jy),
     !.currentPoint = IF Len(beziers) = 0 THEN @
                      ELSE Pt(beziers[Len(beziers)][4].x,
                              beziers[Len(beziers)][4].y)]

\* Lines 166-190 for s = arcSetup of the argument of arcToCubicBeziers.
arcWrite(st, s, jx, jy) ==
  IF ~s.exact THEN [st EXCEPT !.exact = FALSE]
  ELSE arcEmit(st, arcLoop(s), jx, jy)

arcBranch(relative, seg, st, jx, jy) ==
  LET x == IF relative THEN RAdd(seg[6], st.currentPoint.x) ELSE seg[6]
      y == IF relative THEN RAdd(seg[7], st.currentPoint.y) ELSE seg[7]
  IN  arcWrite(st,
               arcSetup([px |-> st.currentPoint.x, py |-> st.currentPoint.y,
                         cx |-> x, cy |-> y, rx |-> seg[1], ry |-> seg[2],
                         xAxisRotation |-> seg[3],
                         largeArcFlag |-> seg[4][1] # 0,
                         sweepFlag |-> seg[5][1] # 0]),
               jx, jy)

hBranch(relative, seg, st, jx, jy) ==
  LET x == IF relative THEN RAdd(seg[1], st.currentPoint.x) ELSE seg[1]
      dx == distortCoord(x, jx)
  IN  [st EXCEPT
         !.rebuiltPath = @ \o <<Lt("L"), SP, Num(dx), SP,
                               Num(distortCoord(st.currentPoint.y, jy)), SP>>,
         !.currentPoint = Pt(x, st.currentPoint.y)]

vBranch(relative, seg, st, jx, jy) ==
  LET y == IF relative THEN RAdd(seg[1], st.currentPoint.y) ELSE seg[1]
      dy == distortCoord(y, jy)
  IN  [st EXCEPT
         !.rebuiltPath = @ \o <<Lt("L"), SP,
                               Num(distortCoord(st.currentPoint.x, jx)), SP,
                               Num(dy), SP>>,
         !.currentPoint = Pt(st.currentPoint.x, y)]

lBranch(relative, seg, st, jx, jy) ==
  LET x == IF relative THEN RAdd(seg[1], st.currentPoint.x) ELSE seg[1]
      y == IF relative THEN RAdd(seg[2], st.currentPoint.y) ELSE seg[2]
      bezier == lineToBezier(st.currentPoint, Pt(x, y))
      cp1 == bezier[2]
      cp2 == bezier[3]
      p3 == bezier[4]
  IN  [st EXCEPT
         !.rebuiltPath = @ \o cubicText(distortCoord(cp1.x, jx),
                                        distortCoord(cp1.y, jy),
                                        distortCoord(cp2.x, jx),
                                        distortCoord(cp2.y, jy),
                                        distortCoord(p3.x, jx),
                                        distortCoord(p3.y, jy)),
         !.currentPoint = Pt(x, y)]

\* Lines 233-246: the distorted absolute coordinates of one group.
generalCoords(relative, seg, st, jx, jy) ==
  [k \in 1..Len(seg) |->
     IF k % 2 = 1
     THEN distortCoord(IF relative THEN RAdd(seg[k], st.currentPoint.x)
                       ELSE seg[k], jx)
     ELSE distortCoord(IF relative THEN RAdd(seg[k], st.currentPoint.y)
                       ELSE seg[k], jy)]

\* Lines 251-254: the pairs `${x} ${y} ` from the k-th coordinate on.
RECURSIVE pairsText(_, _)
pairsText(coords, k) ==
  IF k + 1 > Len(coords) THEN <<>>
  ELSE <<Num(coords[k]), SP, Num(coords[k + 1]), SP>> \o pairsText(coords, k + 2)

\* Lines 257-280: the current point a general command leaves.
generalPoint(coords) == Pt(coords[Len(coords) - 1], coords[Len(coords)])

generalBranch(upper, relative, seg, st, jx, jy) ==
  LET coords == generalCoords(relative, seg, st, jx, jy)
      cmd == upper
      point == generalPoint(coords)
  IN  [st EXCEPT
         !.rebuiltPath = @ \o <<Lt(cmd), SP>> \o pairsText(coords, 1),
         !.currentPoint = point,
         !.subpathStart = IF upper = "M" THEN point ELSE @]

\* Lines 149-281: one complete parameter group of a command.
applyGroup(upper, relative, seg, st, jx, jy) ==
  IF upper = "A" THEN arcBranch(relative, seg, st, jx, jy)
  ELSE IF upper = "H" THEN hBranch(relative, seg, st, jx, jy)
  ELSE IF upper = "V" THEN vBranch(relative, seg, st, jx, jy)
  ELSE IF upper = "L" THEN lBranch(relative, seg, st, jx, jy)
  ELSE generalBranch(upper, relative, seg, st, jx, jy)

\* Lines 137-143: the close-path branch.
zBranch(st) ==
  [st EXCEPT !.rebuiltPath = @ \o <<Lt("Z"), SP>>,
             !.currentPoint = st.subpathStart]

\* A faulty variant: a partial group is completed with zeros instead of
\* ending the loop.
RECURSIVE runGroupsPadded(_, _, _, _, _, _, _)
runGroupsPadded(upper, relative, params, i, st, jx, jy) ==
  LET paramCount == paramCounts(upper)
  IN  IF ~(i < Len(params) \/ paramCount = 0) THEN st
      ELSE IF upper = "Z" THEN zBranch(st)
      ELSE runGroupsPadded(
             upper, relative, params, i + paramCount,
             applyGroup(upper, relative,
                        [k \in 1..paramCount |->
                           IF i + k <= Len(params) THEN params[i + k]
                           ELSE R(0)],
                        st, jx, jy),
             jx, jy)

\* Lines 135-286: the inner while loop, i parameters already consumed.
RECURSIVE runGroups(_, _, _, _, _, _, _)
runGroups(upper, relative, params, i, st, jx, jy) ==
  LET paramCount == paramCounts(upper)
  IN  IF ~(i < Len(params) \/ paramCount = 0) THEN st
      ELSE IF upper = "Z" THEN zBranch(st)
      ELSE LET hi == IF i + paramCount < Len(params) THEN i + paramCount
                     ELSE Len(params)
               segmentParams == SubSeq(params, i + 1, hi)
           IN  IF Len(segmentParams) < paramCount THEN st
               ELSE runGroups(upper, relative, params, i + paramCount,
                              applyGroup(upper, relative, segmentParams, st,
                                         jx, jy),
                              jx, jy)

\* A faulty variant: an unknown command is written in upper case and its
\* numbers pass through distortCoord.
execMatchNormalising(d, m, st, jx, jy) ==
  LET command == d[m.at][1]
      paramsStr == SubSeq(d, m.at + 1, m.last)
      upper == toUpperCase(command)
      relative == command # upper
      params == parseParams(paramsStr)
  IN  IF paramCounts(upper) = -1
      THEN [st EXCEPT
              !.rebuiltPath =
                 @ \o <<Lt(upper)>>
                   \o [k \in 1..Len(paramsStr) |->
                         IF paramsStr[k][1] = "num"
                         THEN Num(distortCoord(<<paramsStr[k][2],
                                                 paramsStr[k][3]>>, jx))
                         ELSE paramsStr[k]]]
      ELSE runGroups(upper, relative, params, 0, st, jx, jy)

\* Lines 105-287: the body of the outer while loop for the match m of d.
execMatch(d, m, st, jx, jy) ==
  LET command == d[m.at][1]
      paramsStr == SubSeq(d, m.at + 1, m.last)
      upper == toUpperCase(command)
      relative == command # upper
      params == parseParams(paramsStr)
  IN  IF paramCounts(upper) = -1
      THEN [st EXCEPT !.rebuiltPath = @ \o <<Lt(command)>> \o paramsStr]
      ELSE runGroups(upper, relative, params, 0, st, jx, jy)

\* Lines 84-85, 101: the state a run of distortPath starts from.
distortStart ==
  [currentPoint |-> Origin, subpathStart |-> Origin, rebuiltPath |-> <<>>,
   exact |-> TRUE]

(***************************************************************************)
(* Inputs of the model.                                                    *)
(***************************************************************************)
N(k) == <<"num", k, 1>>               \* a number literal of the input text

\* The commands the generated input paths are built from.
Commands ==
  { <<Lt("M"), N(3), CM, N(6), SP>>,                        \* "M3,6 "
    <<Lt("m"), N(3), SP, N(3), SP, N(3), SP, N(0), SP>>,    \* "m3 3 3 0 "
    <<Lt("l"), N(3), CM, N(3), SP, JK, SP, N(6)>>,          \* "l3,3 # 6"
    <<Lt("L"), N(9)>>,                                      \* "L9"
    <<Lt("H"), N(6), SP>>,                                  \* "H6 "
    <<Lt("v"), N(3), SP, N(6), SP>>,                        \* "v3 6 "
    <<Lt("z"), N(3), SP>>,                                  \* "z3 "
    <<Lt("X"), N(5), CM, N(5), SP>> }                       \* "X5,5 "

RECURSIVE PathsOfLength(_)
PathsOfLength(n) ==
  IF n = 0 THEN {<<>>}
  ELSE {c \o rest : c \in Commands, rest \in PathsOfLength(n - 1)}

\* "M0,0 L10,0 L10,10 Z"
ScenarioPath ==
  <<Lt("M"), N(0), CM, N(0), SP, Lt("L"), N(10), CM, N(0), SP,
    Lt("L"), N(10), CM, N(10), SP, Lt("Z")>>

\* "S3,0 6,3 q3,3 6,0 T9,9 t3,3 C0,3 3,6 6,6 V3 h6 L1,2 3,4 x #"
CurvesPath ==
  <<Lt("S"), N(3), CM, N(0), SP, N(6), CM, N(3), SP,
    Lt("q"), N(3), CM, N(3), SP, N(6), CM, N(0), SP,
    Lt("T"), N(9), CM, N(9), SP, Lt("t"), N(3), CM, N(3), SP,
    Lt("C"), N(0), CM, N(3), SP, N(3), CM, N(6), SP, N(6), CM, N(6), SP,
    Lt("V"), N(3), SP, Lt("h"), N(6), SP, Lt("L"), N(1), CM, N(2), SP,
    N(3), CM, N(4), SP, Lt("x"), SP, JK>>

\* "A3 3 0 1 0 3 3 a1 1 0 0 0 0 6 Z"
ArcsPath ==
  <<Lt("A"), N(3), SP, N(3), SP, N(0), SP, N(1), SP, N(0), SP, N(3), SP,
    N(3), SP,
    Lt("a"), N(1), SP, N(1), SP, N(0), SP, N(0), SP, N(0), SP, N(0), SP,
    N(6), SP, Lt("Z")>>

\* "m3 3 c0,3 3,6 6,6 a3 3 0 0 1 6 0 z"
RelativePath ==
  <<Lt("m"), N(3), SP, N(3), SP,
    Lt("c"), N(0), CM, N(3), SP, N(3), CM, N(6), SP, N(6), CM, N(6), SP,
    Lt("a"), N(3), SP, N(3), SP, N(0), SP, N(0), SP, N(1), SP, N(6), SP,
    N(0), SP, Lt("z")>>

Paths ==
  UNION {PathsOfLength(n) : n \in 0..MaxCmds}
    \cup {ScenarioPath, CurvesPath, ArcsPath, RelativePath}

\* Under jitter every command multiplies the runs, so the long path is left
\* out.
JitterPaths == Paths \ {CurvesPath}

\* The attrs argument of the wrapped function; "undefined" is an absent key.
AttrSets ==
  { [fill |-> "undefined", stroke |-> "undefined"],
    [fill |-> "red", stroke |-> "blue"] }

(***************************************************************************)
(* State.                                                                  *)
(***************************************************************************)
VARIABLES
  d,             \* the path string given to the wrapped function
  attrs,         \* the attrs given to the wrapped function
  jitter,        \* options.jitter
  repeats,       \* options.repeats
  i,             \* the loop variable of makeDraftyPath
  pc,            \* "loop": at the head of the for loop; "scan": in distortPath
  lastIndex,     \* commandRegex.lastIndex, as an index into d
  currentPoint,
  subpathStart,
  rebuiltPath,
  calls,         \* the calls of drawPathFn made so far: [d, attrs]
  arc,           \* the argument of arcToCubicBeziers
  beziers,       \* its result, <<>> before the call
  curve,         \* the arguments p0, p1, p2, p3, segments of splitCubicBezier
  splitI,        \* its loop variable
  result         \* its result array

draftVars == <<d, attrs, jitter, repeats, i, pc, lastIndex, currentPoint,
               subpathStart, rebuiltPath, calls>>

arcVars == <<arc, beziers>>

splitVars == <<curve, splitI, result>>

vars == <<draftVars, arcVars, splitVars>>

NoArc ==
  [px |-> R(0), py |-> R(0), cx |-> R(0), cy |-> R(0), rx |-> R(0),
   ry |-> R(0), xAxisRotation |-> R(0), largeArcFlag |-> FALSE,
   sweepFlag |-> FALSE]

NoCurve == [p0 |-> Origin, p1 |-> Origin, p2 |-> Origin, p3 |-> Origin,
            segments |-> 0]

ArcIdle == arc = NoArc /\ beziers = <<>>

SplitIdle == curve = NoCurve /\ splitI = 0 /\ result = <<>>

DraftIdle ==
  /\ d = <<>> /\ attrs = [fill |-> "undefined", stroke |-> "undefined"]
  /\ jitter = 0 /\ repeats = 0 /\ i = 0 /\ pc = "idle" /\ lastIndex = 0
  /\ currentPoint = Origin /\ subpathStart = Origin /\ rebuiltPath = <<>>
  /\ calls = <<>>

(***************************************************************************)
(* makeDraftyPath: the function it returns, called once.                   *)
(***************************************************************************)
DraftInit(paths, attrSets, jitters, repeatSet) ==
  /\ d \in paths
  /\ attrs \in attrSets
  /\ jitter \in jitters
  /\ repeats \in repeatSet
  /\ i = 0
  /\ pc = "loop"
  /\ lastIndex = 0
  /\ currentPoint = Origin
  /\ subpathStart = Origin
  /\ rebuiltPath = <<>>
  /\ calls = <<>>
  /\ ArcIdle /\ SplitIdle

\* The interpreter state as one record.
Interp ==
  [currentPoint |-> currentPoint, subpathStart |-> subpathStart,
   rebuiltPath |-> rebuiltPath, exact |-> TRUE]

\* A faulty variant: the points of the previous pass are kept.
CallDistortPathStale ==
  /\ pc = "loop" /\ i < repeats + 1
  /\ rebuiltPath' = <<>>
  /\ lastIndex' = 1
  /\ pc' = "scan"
  /\ UNCHANGED <<d, attrs, jitter, repeats, i, calls, currentPoint,
                 subpathStart, arcVars, splitVars>>

\* Lines 49-50: the loop test holds and distortPath(d, jitter) is entered.
CallDistortPath ==
  /\ pc = "loop" /\ i < repeats + 1
  /\ currentPoint' = distortStart.currentPoint
  /\ subpathStart' = distortStart.subpathStart
  /\ rebuiltPath' = distortStart.rebuiltPath
  /\ lastIndex' = 1
  /\ pc' = "scan"
  /\ UNCHANGED <<d, attrs, jitter, repeats, i, calls, arcVars, splitVars>>

\* Lines 105-287: one iteration of the outer while loop.
ExecCommand ==
  /\ pc = "scan"
  /\ LET m == regexExec(d, lastIndex)
     IN  /\ m.at # 0
         /\ \E jx \in Offsets(jitter), jy \in Offsets(jitter) :
              \E st \in {execMatch(d, m, Interp, jx, jy)} :
                 /\ st.exact
                 /\ currentPoint' = st.currentPoint
                 /\ subpathStart' = st.subpathStart
                 /\ rebuiltPath' = st.rebuiltPath
         /\ lastIndex' = m.last + 1
  /\ UNCHANGED <<d, attrs, jitter, repeats, i, pc, calls, arcVars, splitVars>>

\* A faulty variant: the last pass, not the first, is the fill layer.
passAttrsLastFills(a, k) ==
  IF k = repeats
  THEN [fill |-> IF a.fill = "undefined" THEN "black" ELSE a.fill,
        stroke |-> "none"]
  ELSE [fill |-> "none",
        stroke |-> IF a.stroke = "undefined" THEN "black" ELSE a.stroke]

\* Lines 53-70: the attributes of pass k.
passAttrs(a, k) ==
  LET isFirst == k = 0
  IN  IF isFirst
      THEN [fill |-> IF a.fill = "undefined" THEN "black" ELSE a.fill,
            stroke |-> "none"]
      ELSE [fill |-> "none",
            stroke |-> IF a.stroke = "undefined" THEN "black" ELSE a.stroke]

\* Lines 289 and 51-73: the regex finds no more command, distortPath returns
\* the trimmed text and the pass draws it.
ReturnAndDraw ==
  /\ pc = "scan"
  /\ regexExec(d, lastIndex).at = 0
  /\ calls' = Append(calls, [d |-> trim(rebuiltPath), attrs |-> passAttrs(attrs, i)])
  /\ i' = i + 1
  /\ pc' = "loop"
  /\ UNCHANGED <<d, attrs, jitter, repeats, lastIndex, currentPoint,
                 subpathStart, rebuiltPath, arcVars, splitVars>>

Init == DraftInit(Paths, AttrSets, {0}, 0..MaxRepeats)

Next == CallDistortPath \/ ExecCommand \/ ReturnAndDraw

Spec == Init /\ [][Next]_vars

\* Runs of one pass each, with and without jitter.
InitJitter ==
  DraftInit(JitterPaths, {[fill |-> "red", stroke |-> "undefined"]},
            0..MaxJitter, {0})

SpecJitter == InitJitter /\ [][Next]_vars

(***************************************************************************)
(* arcToCubicBeziers called on its own: the for loop pushes one segment    *)
(* per step, so Len(beziers) is the loop variable i.                       *)
(***************************************************************************)
Coords == {R(k) : k \in 0..MaxCoord}

Radii == {R(k) : k \in 1..MaxRadius}

Reaches == {R(k) : k \in (-MaxReach)..MaxReach}

ArcInputs ==
  {a \in {[px |-> px, py |-> py, cx |-> RAdd(px, ex), cy |-> RAdd(py, ey),
           rx |-> rx, ry |-> ry, xAxisRotation |-> R(rot),
           largeArcFlag |-> large, sweepFlag |-> sweep] :
            px \in Coords, py \in {R(0)}, ex \in Reaches, ey \in Reaches,
            rx \in Radii, ry \in Radii, rot \in {0, 90},
            large \in BOOLEAN, sweep \in BOOLEAN} : ArcExact(a)}

ArcInit == DraftIdle /\ SplitIdle /\ arc \in ArcInputs /\ beziers = <<>>

\* Lines 215-245: one pass of the for loop.
ArcPush ==
  /\ arc # NoArc
  /\ \E s \in {arcSetup(arc)} :
       /\ Len(beziers) < s.segments
       /\ beziers' = Append(beziers, arcSegment(s, Len(beziers)))
  /\ UNCHANGED <<arc, draftVars, splitVars>>

\* Line 247: the loop test fails and beziers is returned.
ArcReturned == arc # NoArc /\ Len(beziers) = arcSetup(arc).segments

NextArc == ArcPush

SpecArc == ArcInit /\ [][NextArc]_vars

(***************************************************************************)
(* splitCubicBezier called on its own.                                     *)
(***************************************************************************)
Points == {Pt(x, y) : x \in Coords, y \in {R(0), R(1)}}

SplitInit ==
  /\ DraftIdle /\ ArcIdle
  /\ curve \in [p0 : Points, p1 : Points, p2 : Points, p3 : Points,
                segments : 1..MaxSegments]
  /\ splitI = 1
  /\ result = <<>>

\* Lines 127-137: one pass of the for loop.
SplitPush ==
  /\ curve # NoCurve
  /\ splitI <= curve.segments
  /\ result' = Append(result, splitSegment(curve.p0, curve.p1, curve.p2,
                                           curve.p3, curve.segments, splitI))
  /\ splitI' = splitI + 1
  /\ UNCHANGED <<curve, draftVars, arcVars>>

\* Line 139: the loop test fails and result is returned.
SplitReturned == curve # NoCurve /\ splitI > curve.segments

NextSplit == SplitPush

SpecSplit == SplitInit /\ [][NextSplit]_vars

(***************************************************************************)
(* Properties.                                                             *)
(***************************************************************************)
\* The command the scan consumes next, as distortPath reads it.
nextMatch == regexExec(d, lastIndex)

matchUpper(m) == toUpperCase(d[m.at][1])

matchRelative(m) == d[m.at][1] # matchUpper(m)

matchParams(m) == parseParams(SubSeq(d, m.at + 1, m.last))

\* The command the scan consumed last (lastIndex > 1).
prevMatch ==
  LET letters == {k \in 1..(lastIndex - 1) : IsLetter(d[k])}
  IN  [at |-> CHOOSE k \in letters : \A j \in letters : j <= k,
       last |-> lastIndex - 1]

\* A step of the outer while loop.
ExecStep == pc = "scan" /\ pc' = "scan"

\* The commands of a path text.
allMatches(path) ==
  {regexExec(path, k) : k \in {j \in 1..Len(path) : IsLetter(path[j])}}

\* Every command of the path is one of the ten letters and has whole groups
\* of parameters (none for Z).
CompleteGroups(path) ==
  \A m \in allMatches(path) :
     LET n == paramCounts(toUpperCase(path[m.at][1]))
         given == Len(parseParams(SubSeq(path, m.at + 1, m.last)))
     IN  /\ n # -1
         /\ n = 0 => given = 0
         /\ n > 0 => given > 0 /\ given % n = 0

\* C1: for an input of the ten command letters with complete parameter
\* groups, every command letter written to the output is M, C or Z.
C1_OnlyMoveCubicClose ==
  CompleteGroups(d) =>
    \A k \in 1..Len(rebuiltPath) :
       IsLetter(rebuiltPath[k]) => rebuiltPath[k][1] \in {"M", "C", "Z"}

\* The invocation has returned.
Done == pc = "loop" /\ i = repeats + 1

\* Every step of an invocation raises this number, which never exceeds
\* (repeats + 2) * (Len(d) + 2): an invocation is a finite run.
progress == i * (Len(d) + 2) + (IF pc = "scan" THEN lastIndex ELSE 0)

\* The guards of CallDistortPath, ExecCommand and ReturnAndDraw: some step
\* can be taken.
CanStep ==
  \/ pc = "loop" /\ i < repeats + 1
  \/ pc = "scan" /\ nextMatch.at # 0
       /\ \E jx \in Offsets(jitter), jy \in Offsets(jitter) :
             execMatch(d, nextMatch, Interp, jx, jy).exact
  \/ pc = "scan" /\ nextMatch.at = 0

\* One draw call per finished pass, in the order of the passes: the first is
\* the fill layer, the later ones are stroke layers.
C2_Layers ==
  /\ Len(calls) = i /\ i <= repeats + 1
  /\ \A k \in 1..Len(calls) :
        IF k = 1 THEN calls[k].attrs.stroke = "none" /\ calls[k].attrs.fill # "none"
        ELSE calls[k].attrs.fill = "none" /\ calls[k].attrs.stroke # "none"

RECURSIVE lineRun(_, _, _, _)
lineRun(P, relative, params, k) ==
  IF 2 * k > Len(params) THEN [text |-> <<>>, point |-> P]
  ELSE LET Q == IF relative
                THEN Pt(RAdd(P.x, params[2 * k - 1]), RAdd(P.y, params[2 * k]))
                ELSE Pt(params[2 * k - 1], params[2 * k])
           third(a, b, n) == RAdd(a, RDiv(RMul(R(n), RSub(b, a)), R(3)))
           rest == lineRun(Q, relative, params, k + 1)
       IN  [text |-> <<Lt("C"), SP, Num(third(P.x, Q.x, 1)), SP,
                       Num(third(P.y, Q.y, 1)), SP, Num(third(P.x, Q.x, 2)), SP,
                       Num(third(P.y, Q.y, 2)), SP, Num(Q.x), SP, Num(Q.y), SP>>
                     \o rest.text,
            point |-> rest.point]

\* "M 0 0 C 10/3 0 20/3 0 10 0 C 10 10/3 10 20/3 10 10 Z"
ScenarioOut ==
  <<Lt("M"), SP, Num(R(0)), SP, Num(R(0)), SP,
    Lt("C"), SP, Num(<<10, 3>>), SP, Num(R(0)), SP, Num(<<20, 3>>), SP,
    Num(R(0)), SP, Num(R(10)), SP, Num(R(0)), SP,
    Lt("C"), SP, Num(R(10)), SP, Num(<<10, 3>>), SP, Num(R(10)), SP,
    Num(<<20, 3>>), SP, Num(R(10)), SP, Num(R(10)), SP, Lt("Z")>>

\* C3: with jitter 0 every LineTo from P to Q writes one C with control
\* points P + (Q-P)/3 and P + 2(Q-P)/3 and end point Q and moves the current
\* point to Q; "M0,0 L10,0 L10,10 Z" is drawn as ScenarioOut.
C3_LineToThirds ==
  [][/\ (ExecStep /\ jitter = 0 /\ matchUpper(nextMatch) = "L") =>
          LET run == lineRun(currentPoint, matchRelative(nextMatch),
                             matchParams(nextMatch), 1)
          IN  /\ rebuiltPath' = rebuiltPath \o run.text
              /\ currentPoint' = run.point
     /\ (d = ScenarioPath /\ jitter = 0 /\ Len(calls') = Len(calls) + 1) =>
          calls'[Len(calls')].d = ScenarioOut]_vars

C3_Witness ==
  /\ d = ScenarioPath /\ Len(calls) >= 1 /\ calls[1].d = ScenarioOut
  /\ currentPoint = Origin

\* The state after the whole groups of params, k parameters already used.
RECURSIVE wholeGroups(_, _, _, _, _, _, _)
wholeGroups(upper, relative, params, k, st, jx, jy) ==
  IF k + paramCounts(upper) > Len(params) THEN st
  ELSE wholeGroups(upper, relative, params, k + paramCounts(upper),
                   applyGroup(upper, relative,
                              SubSeq(params, k + 1, k + paramCounts(upper)),
                              st, jx, jy),
                   jx, jy)

\* C4: a group with fewer parameters than the arity writes nothing and
\* leaves currentPoint and subpathStart alone; the whole groups before it
\* are processed and the scan goes on behind the command.
C4_PartialGroupDropped ==
  [][(/\ ExecStep
      /\ paramCounts(matchUpper(nextMatch)) > 0
      /\ Len(matchParams(nextMatch)) % paramCounts(matchUpper(nextMatch)) # 0) =>
        /\ \E jx \in Offsets(jitter), jy \in Offsets(jitter) :
             LET st == wholeGroups(matchUpper(nextMatch),
                                   matchRelative(nextMatch),
                                   matchParams(nextMatch), 0, Interp, jx, jy)
             IN  /\ rebuiltPath' = st.rebuiltPath
                 /\ currentPoint' = st.currentPoint
                 /\ subpathStart' = st.subpathStart
        /\ Len(matchParams(nextMatch)) < paramCounts(matchUpper(nextMatch)) =>
             /\ rebuiltPath' = rebuiltPath
             /\ currentPoint' = currentPoint
             /\ subpathStart' = subpathStart
        /\ lastIndex' = nextMatch.last + 1]_vars

C4_Witness ==
  /\ pc = "scan" /\ lastIndex > 1
  /\ paramCounts(matchUpper(prevMatch)) > 0
  /\ Len(matchParams(prevMatch)) > paramCounts(matchUpper(prevMatch))
  /\ Len(matchParams(prevMatch)) % paramCounts(matchUpper(prevMatch)) # 0
  /\ rebuiltPath # <<>>
  /\ nextMatch.at # 0

\* C5: with jitter 0 every pass starts from currentPoint = subpathStart =
\* (0,0) and an empty output, and all passes draw the same text.
C5_FreshAndIdentical ==
  jitter = 0 =>
    /\ (pc = "scan" /\ lastIndex = 1) =>
          currentPoint = Origin /\ subpathStart = Origin /\ rebuiltPath = <<>>
    /\ \A j, k \in 1..Len(calls) : calls[j].d = calls[k].d

C5_Witness ==
  /\ jitter = 0 /\ Len(calls) >= 2 /\ calls[1].d # <<>>
  /\ pc = "loop" /\ currentPoint # Origin

\* |a - b| <= 1e-6 on both axes.
Near(a, b) ==
  /\ ~RLess(<<1, 1000000>>, RAbs(RSub(a.x, b.x)))
  /\ ~RLess(<<1, 1000000>>, RAbs(RSub(a.y, b.y)))

\* C6: for an arc with positive radii and distinct end points, whatever the
\* flags and also when lambda > 1, the returned list is not empty, its first
\* p0 is the start of the arc and its last p3 the end of the arc.
C6_ArcEndpoints ==
  (ArcReturned /\ RLess(R(0), arc.rx) /\ RLess(R(0), arc.ry)
     /\ Pt(arc.px, arc.py) # Pt(arc.cx, arc.cy)) =>
    /\ Len(beziers) > 0
    /\ Near(beziers[1][1], Pt(arc.px, arc.py))
    /\ Near(beziers[Len(beziers)][4], Pt(arc.cx, arc.cy))

\* The cubic in Bernstein form:
\* (1-t)^3 a0 + 3 (1-t)^2 t a1 + 3 (1-t) t^2 a2 + t^3 a3.
bernstein(a0, a1, a2, a3, t) ==
  LET u == RSub(R(1), t)
  IN  RAdd(RAdd(RMul(RMul(u, RMul(u, u)), a0),
                RMul(RMul(R(3), RMul(RMul(u, u), t)), a1)),
           RAdd(RMul(RMul(R(3), RMul(u, RMul(t, t))), a2),
                RMul(RMul(t, RMul(t, t)), a3)))

\* The original curve evaluated at k / n.
curveAt(k, n) ==
  Pt(bernstein(curve.p0.x, curve.p1.x, curve.p2.x, curve.p3.x, Norm(k, n)),
     bernstein(curve.p0.y, curve.p1.y, curve.p2.y, curve.p3.y, Norm(k, n)))

\* C7: splitCubicBezier returns N sub-curves; sub-curve i starts at the
\* original curve evaluated at i/N and ends at it evaluated at (i+1)/N, so
\* neighbours share their joining point, the first starts at p0 and the last
\* ends at p3.
C7_SplitEndpoints ==
  /\ Len(result) = splitI - 1
  /\ SplitReturned => Len(result) = curve.segments
  /\ \A k \in 1..Len(result) :
        /\ result[k][1] = curveAt(k - 1, curve.segments)
        /\ result[k][4] = curveAt(k, curve.segments)
        /\ k > 1 => result[k][1] = result[k - 1][4]
        /\ k = 1 => result[k][1] = curve.p0
        /\ k = curve.segments => result[k][4] = curve.p3

C7_Witness ==
  /\ SplitReturned /\ curve.segments >= 2 /\ Len(result) = curve.segments
  /\ curve.p0 # curve.p3 /\ curve.p1 # curve.p2
  /\ result[1][4] # curve.p0 /\ result[1][4] # curve.p3

\* C8: a command of another letter is appended as it stands in the input,
\* letter and parameter text, whatever the jitter; currentPoint and
\* subpathStart stay; the scan goes on behind it, and no scan stops before
\* the end of the input.
C8_UnknownVerbatim ==
  /\ [](pc = "scan" => CanStep)
  /\ [][(ExecStep /\ paramCounts(matchUpper(nextMatch)) = -1) =>
          /\ rebuiltPath' = rebuiltPath \o SubSeq(d, nextMatch.at, nextMatch.last)
          /\ currentPoint' = currentPoint
          /\ subpathStart' = subpathStart
          /\ lastIndex' = nextMatch.last + 1]_vars

C8_Witness ==
  /\ pc = "scan" /\ lastIndex > 1 /\ jitter > 0
  /\ paramCounts(matchUpper(prevMatch)) = -1
  /\ Len(matchParams(prevMatch)) > 0
  /\ currentPoint # Origin

\* The point a MoveTo with these parameters leads to from P: the last whole
\* pair, added up from P when the command is relative.
RECURSIVE movedTo(_, _, _, _)
movedTo(P, relative, params, k) ==
  IF 2 * k > Len(params) THEN P
  ELSE movedTo(IF relative
               THEN Pt(RAdd(P.x, params[2 * k - 1]), RAdd(P.y, params[2 * k]))
               ELSE Pt(params[2 * k - 1], params[2 * k]),
               relative, params, k + 1)

\* C9: Z writes one Z, moves currentPoint to subpathStart and keeps
\* subpathStart; only a MoveTo changes subpathStart, to the last pair it
\* consumed.
C9_ClosePath ==
  [][ExecStep =>
       /\ matchUpper(nextMatch) = "Z" =>
            /\ rebuiltPath' = rebuiltPath \o <<Lt("Z"), SP>>
            /\ currentPoint' = subpathStart
            /\ subpathStart' = subpathStart
       /\ matchUpper(nextMatch) # "M" => subpathStart' = subpathStart
       /\ matchUpper(nextMatch) = "M" =>
            subpathStart' =
              IF Len(matchParams(nextMatch)) < 2 THEN subpathStart
              ELSE movedTo(currentPoint, matchRelative(nextMatch),
                           matchParams(nextMatch), 1)]_vars

\* C10: the random draws do not reach the parser state: after every command
\* currentPoint and subpathStart are what the same command gives with all
\* draws zero.
C10_StateUnjittered ==
  [][ExecStep =>
       /\ currentPoint' = execMatch(d, nextMatch, Interp, 0, 0).currentPoint
       /\ subpathStart' = execMatch(d, nextMatch, Interp, 0, 0).subpathStart]_vars

=============================================================================
